---- MODULE Spec2Model ----
(***************************************************************************)
(* Model of app.py: the local invoice line-item parser (currency           *)
(* detection, invoice metadata, the NDI and Bestdrive grammars, the        *)
(* generic fallback), the ChatGPT-based extractor and the ZIP batch loop.  *)
(*                                                                         *)
(* A Python str is a sequence of one-character strings.  A character       *)
(* outside ASCII is written "U+xxxx" with its code point.                  *)
(***************************************************************************)
EXTENDS Integers, Sequences, FiniteSets, TLC

VARIABLES
    ocr_text,        \* argument of extract_line_items_local / detect_currency
    pc,              \* position in the running function or handler
    meta,            \* (invoice_number, invoice_date, client_name), line 248
    invoice_currency,\* line 249
    returned,        \* the list the function returned
    ran,             \* the parsers the call has run so far, in order (history)
    content,         \* response.choices[0].message.content, line 409
    raised,          \* the exception that left the function or handler, or "none"
    files,           \* the supported files of the ZIP, in os.walk order
    parser_mode,     \* the st.radio choice, line 439
    ocr_results,     \* line 464
    all_rows,        \* line 523
    parsed,          \* indices of ocr_results handed to a parser (ghost)
    idx              \* loop position in the OCR loop or the parsing loop

vars == <<ocr_text, pc, meta, invoice_currency, returned, ran, content, raised,
          files, parser_mode, ocr_results, all_rows, parsed, idx>>

----------------------------------------------------------------------------
(* Characters and the str methods the parser uses *)

Digit == {"0", "1", "2", "3", "4", "5", "6", "7", "8", "9"}

\* str.splitlines separators that occur in the modelled texts
LineBreak == {"\n"}

\* \s of re on str, str.isspace: the whitespace of the modelled texts
Space == {" ", "\t"} \cup LineBreak

LowerAZ == <<"a", "b", "c", "d", "e", "f", "g", "h", "i", "j", "k", "l", "m",
             "n", "o", "p", "q", "r", "s", "t", "u", "v", "w", "x", "y", "z">>

UpperAZ == <<"A", "B", "C", "D", "E", "F", "G", "H", "I", "J", "K", "L", "M",
             "N", "O", "P", "Q", "R", "S", "T", "U", "V", "W", "X", "Y", "Z">>

LowerSet == {LowerAZ[i] : i \in DOMAIN LowerAZ}

UpperSet == {UpperAZ[i] : i \in DOMAIN UpperAZ}

\* cased characters outside ASCII: U+00C7/U+00E7 (C with cedilla),
\* U+0141/U+0142 (L with stroke)
ToLower == [c \in UpperSet \cup {"U+00C7", "U+0141"} |->
              IF c = "U+00C7" THEN "U+00E7"
              ELSE IF c = "U+0141" THEN "U+0142"
              ELSE LowerAZ[CHOOSE i \in DOMAIN UpperAZ : UpperAZ[i] = c]]

ToUpper == [c \in LowerSet \cup {"U+00E7", "U+0142"} |->
              IF c = "U+00E7" THEN "U+00C7"
              ELSE IF c = "U+0142" THEN "U+0141"
              ELSE UpperAZ[CHOOSE i \in DOMAIN LowerAZ : LowerAZ[i] = c]]

\* a function on 1..n as a sequence value
AsSeq(f) == <<>> \o f

LowerChar(c) == IF c \in DOMAIN ToLower THEN ToLower[c] ELSE c

UpperChar(c) == IF c \in DOMAIN ToUpper THEN ToUpper[c] ELSE c

\* str.lower()
lower(s) == AsSeq([i \in 1..Len(s) |-> LowerChar(s[i])])

\* str.upper()
upper(s) == AsSeq([i \in 1..Len(s) |-> UpperChar(s[i])])

\* s[i], or "" (in no character class) outside the string
At(s, i) == IF i \in 1..Len(s) THEN s[i] ELSE ""

\* sub in s
Contains(s, sub) ==
    \E i \in 1..(Len(s) - Len(sub) + 1) : \A k \in 1..Len(sub) : s[i + k - 1] = sub[k]

\* re.IGNORECASE comparison of a literal with the text at position i
MatchesAtIgnoreCase(s, i, lit) ==
    /\ i + Len(lit) - 1 <= Len(s)
    /\ \A k \in 1..Len(lit) : LowerChar(s[i + k - 1]) = LowerChar(lit[k])

Min(S) == CHOOSE x \in S : \A y \in S : x <= y

Max(S) == CHOOSE x \in S : \A y \in S : x >= y

\* the elements of a set of integers in increasing order
RECURSIVE SortedSeq(_)
SortedSeq(S) == IF S = {} THEN <<>> ELSE <<Min(S)>> \o SortedSeq(S \ {Min(S)})

\* str.splitlines(): a final line break opens no further line
RECURSIVE splitlines(_)
splitlines(s) ==
    LET breaks == {i \in 1..Len(s) : s[i] \in LineBreak}
    IN  IF s = <<>> THEN <<>>
        ELSE IF breaks = {} THEN <<s>>
        ELSE <<SubSeq(s, 1, Min(breaks) - 1)>>
             \o splitlines(SubSeq(s, Min(breaks) + 1, Len(s)))

\* str.strip(chars); str.strip() is strip(s, Space)
strip(s, chars) ==
    LET keep == {i \in 1..Len(s) : s[i] \notin chars}
    IN  IF keep = {} THEN <<>> ELSE SubSeq(s, Min(keep), Max(keep))

\* str.split(): the maximal runs of non-whitespace
split(s) ==
    LET starts == SortedSeq({i \in 1..Len(s) :
                      s[i] \notin Space /\ (i = 1 \/ s[i - 1] \in Space)})
        EndOf(a) == Min({j \in a..Len(s) : j = Len(s) \/ s[j + 1] \in Space})
    IN  AsSeq([k \in 1..Len(starts) |-> SubSeq(s, starts[k], EndOf(starts[k]))])

\* str.replace(old, new, count) for a one-character old; count < 0 replaces all
RECURSIVE replace(_, _, _, _)
replace(s, old, new, count) ==
    IF s = <<>> THEN <<>>
    ELSE IF Head(s) = old /\ count # 0
         THEN new \o replace(Tail(s), old, new, count - 1)
         ELSE <<Head(s)>> \o replace(Tail(s), old, new, count)

ReplaceAll == 0 - 1

\* re.sub(r"\s+", " ", s)
CollapseWhitespace(s) ==
    LET keep == SortedSeq({i \in 1..Len(s) : s[i] \notin Space \/ At(s, i - 1) \notin Space})
    IN  AsSeq([k \in 1..Len(keep) |-> IF s[keep[k]] \in Space THEN " " ELSE s[keep[k]]])

\* str.isdigit-style test re.fullmatch(r"\d+", s)
FullMatchDigits(s) == s # <<>> /\ \A i \in 1..Len(s) : s[i] \in Digit

----------------------------------------------------------------------------
(* MONEY_REGEX = \d{1,3}(?:[.,]\d{3})*(?:[.,]\d{2}) *)

Sep == {".", ","}

\* [.,]\d{3} at position p
ThousandsGroupAt(s, p) ==
    At(s, p) \in Sep /\ At(s, p + 1) \in Digit /\ At(s, p + 2) \in Digit /\ At(s, p + 3) \in Digit

\* [.,]\d{2} at position p
DecimalsAt(s, p) == At(s, p) \in Sep /\ At(s, p + 1) \in Digit /\ At(s, p + 2) \in Digit

\* the number of consecutive [.,]\d{3} groups from position p (the greedy star)
RECURSIVE GroupRun(_, _)
GroupRun(s, p) == IF ThousandsGroupAt(s, p) THEN 1 + GroupRun(s, p + 4) ELSE 0

\* Last index of the match of MONEY_REGEX that starts at i, 0 when there is none:
\* \d{1,3} tries the most digits first, the star the most groups first.
MONEY_REGEX(s, i) ==
    LET avail == IF At(s, i) \notin Digit THEN 0
                 ELSE IF At(s, i + 1) \notin Digit THEN 1
                 ELSE IF At(s, i + 2) \notin Digit THEN 2 ELSE 3
        Try(d) == LET p  == i + d
                      ks == {k \in 0..GroupRun(s, p) : DecimalsAt(s, p + 4 * k)}
                  IN  IF ks = {} THEN 0 ELSE p + 4 * Max(ks) + 2
        ds == {d \in 1..avail : Try(d) # 0}
    IN  IF ds = {} THEN 0 ELSE Try(Max(ds))

\* the spans <<first, last>> of re.findall / re.sub: leftmost, non-overlapping
RECURSIVE MoneySpansFrom(_, _)
MoneySpansFrom(s, i) ==
    IF i > Len(s) THEN <<>>
    ELSE LET e == MONEY_REGEX(s, i)
         IN  IF e = 0 THEN MoneySpansFrom(s, i + 1)
             ELSE <<<<i, e>>>> \o MoneySpansFrom(s, e + 1)

\* re.findall(MONEY_REGEX, line)
findall_money(line) ==
    LET sp == MoneySpansFrom(line, 1)
    IN  AsSeq([k \in 1..Len(sp) |-> SubSeq(line, sp[k][1], sp[k][2])])

\* re.sub(MONEY_REGEX, "", line)
sub_money(line) ==
    LET sp   == MoneySpansFrom(line, 1)
        keep == SortedSeq({i \in 1..Len(line) :
                    \A k \in 1..Len(sp) : i < sp[k][1] \/ i > sp[k][2]})
    IN  AsSeq([k \in 1..Len(keep) |-> line[keep[k]]])

----------------------------------------------------------------------------
(* detect_currency *)

USD == <<"U", "S", "D">>

EUR == <<"E", "U", "R">>

NOK == <<"N", "O", "K">>

PLN == <<"P", "L", "N">>

GBP == <<"G", "B", "P">>

\* The literals of lines 41, 46 and 48 as the file holds them.  Line 41 holds the
\* three characters U+201A U+00C7 U+00A8 (the UTF-8 bytes of the euro sign
\* U+20AC read as Mac Roman), line 46 holds z U+2248 U+00C7 (those of z and
\* U+0142, l with stroke), line 48 holds U+00AC U+00A3 (those of the pound sign
\* U+00A3).
EuroLiteral == <<"U+201A", "U+00C7", "U+00A8">>

ZlotyLiteral == <<"z", "U+2248", "U+00C7">>

PoundLiteral == <<"U+00AC", "U+00A3">>

detect_currency(text) ==
    IF Contains(text, <<"$">>) THEN USD
    ELSE IF Contains(text, EuroLiteral) THEN EUR
    ELSE IF Contains(text, <<" ">> \o NOK) \/ Contains(text, <<"k", "r">>) THEN NOK
    ELSE IF Contains(text, <<" ">> \o PLN) \/ Contains(lower(text), ZlotyLiteral) THEN PLN
    ELSE IF Contains(text, <<" ">> \o GBP) \/ Contains(text, PoundLiteral) THEN GBP
    ELSE <<>>

----------------------------------------------------------------------------
(* extract_invoice_meta_basic *)

\* A greedy quantifier that may give back.  tries holds, for every number k of
\* repetitions, the pair <<k, what the rest of the pattern yields after k>>:
\* the result at the largest k where the rest succeeds (is not 0), 0 when it
\* succeeds nowhere.
Greedy(tries) ==
    LET ok == {r \in tries : r[2] # 0}
    IN  IF ok = {} THEN 0 ELSE (CHOOSE r \in ok : \A q \in ok : q[1] <= r[1])[2]

\* the length of the maximal run of characters of class cls from position p
RECURSIVE Run(_, _, _)
Run(s, p, cls) == IF At(s, p) \in cls THEN 1 + Run(s, p + 1, cls) ELSE 0

\* [A-Za-z0-9\-\/]
NumberChar == LowerSet \cup UpperSet \cup Digit \cup {"-", "/"}

\* the number of characters an optional character of class cls takes at p
OptMax(s, p, cls) == IF At(s, p) \in cls THEN 1 ELSE 0

\* a greedy quantifier whose rest yields captured spans: the result at the
\* largest k where the rest succeeds (is not <<>>)
GreedyCap(tries) ==
    LET ok == {r \in tries : r[2] # <<>>}
    IN  IF ok = {} THEN <<>> ELSE (CHOOSE r \in ok : \A q \in ok : q[1] <= r[1])[2]

\* a lazy quantifier: the result at the smallest k where the rest succeeds
LazyCap(tries) ==
    LET ok == {r \in tries : r[2] # <<>>}
    IN  IF ok = {} THEN <<>> ELSE (CHOOSE r \in ok : \A q \in ok : q[1] >= r[1])[2]

\* a group that took the k characters from p, followed by what r captured
Captured(p, k, r) == IF r = <<>> THEN <<>> ELSE <<p, p + k - 1>> \o r

\* the span <<first, last>> of a match, <<>> when last is 0 (no match)
Span(first, last) == IF last = 0 THEN <<>> ELSE <<first, last>>

\* the text of a span, "" for no span
SpanText(s, span) == IF span = <<>> THEN <<>> ELSE SubSeq(s, span[1], span[2])

\* the position after the word w matched at i ignoring case, 0 on no match
Word(s, i, w) == IF MatchesAtIgnoreCase(s, i, w) THEN i + Len(w) ELSE 0

\* the first of two alternatives that matched
Alt(first, second) == IF first # 0 THEN first ELSE second

\* (Invoice|Faktura)\s*#?\s*[:\-]?\s*([A-Za-z0-9\-\/]+) with re.IGNORECASE,
\* matched at position i: the span <<first, last>> of group 2, <<>> on no match
InvoiceNumberAt(s, i) ==
    LET \* each stage: the start of group 2 on the first successful path, or 0
        Group(q)  == IF At(s, q) \in NumberChar THEN q ELSE 0
        Ws3(p)    == Greedy({<<k, Group(p + k)>> : k \in 0..Run(s, p, Space)})
        Colon(p)  == Greedy({<<k, Ws3(p + k)>> : k \in 0..OptMax(s, p, {":", "-"})})
        Ws2(p)    == Greedy({<<k, Colon(p + k)>> : k \in 0..Run(s, p, Space)})
        Hash(p)   == Greedy({<<k, Ws2(p + k)>> : k \in 0..OptMax(s, p, {"#"})})
        Ws1(p)    == Greedy({<<k, Hash(p + k)>> : k \in 0..Run(s, p, Space)})
        From(p0)  == IF p0 = 0 THEN 0 ELSE Ws1(p0)
        Group2(q) == IF q = 0 THEN <<>> ELSE <<q, q + Run(s, q, NumberChar) - 1>>
    IN  Group2(From(Alt(Word(s, i, <<"I", "n", "v", "o", "i", "c", "e">>),
                        Word(s, i, <<"F", "a", "k", "t", "u", "r", "a">>))))

\* \d{4}-\d{2}-\d{2} at i: the last index of the match, or 0
DateIsoAt(s, i) ==
    IF /\ \A k \in {0, 1, 2, 3, 5, 6, 8, 9} : At(s, i + k) \in Digit
       /\ At(s, i + 4) = "-" /\ At(s, i + 7) = "-"
    THEN i + 9 ELSE 0

\* \d{2}\.\d{2}\.\d{4} at i
DateDotAt(s, i) ==
    IF /\ \A k \in {0, 1, 3, 4, 6, 7, 8, 9} : At(s, i + k) \in Digit
       /\ At(s, i + 2) = "." /\ At(s, i + 5) = "."
    THEN i + 9 ELSE 0

\* \d{1,2}/\d{1,2}/\d{2,4} at i
DateSlashAt(s, i) ==
    LET UpTo(r, n) == IF r > n THEN n ELSE r
        YearEnd(p, n) == IF n >= 2 THEN p + n - 1 ELSE 0
        Year(p)  == YearEnd(p, UpTo(Run(s, p, Digit), 4))
        Slash(p, Rest(_)) == IF At(s, p) = "/" THEN Rest(p + 1) ELSE 0
        Month(p) == Greedy({<<k, Slash(p + k, Year)>> : k \in 1..UpTo(Run(s, p, Digit), 2)})
    IN  Greedy({<<k, Slash(i + k, Month)>> : k \in 1..UpTo(Run(s, i, Digit), 2)})

\* (Bill to|Recipient|RECIPIENT)[:\s]+(.+) with re.IGNORECASE at position i:
\* the span of group 2, <<>> on no match
ClientAt(s, i) ==
    LET \* .+ : at least one character, none of them "\n"
        Dot(q) == IF q <= Len(s) /\ s[q] # "\n" THEN q ELSE 0
        From(p0) == IF p0 = 0 THEN 0
                    ELSE Greedy({<<k, Dot(p0 + k)>> : k \in 1..Run(s, p0, Space \cup {":"})})
        Group2(q) == IF q = 0 THEN <<>>
                     ELSE <<q, q + Run(s, q, {s[j] : j \in 1..Len(s)} \ {"\n"}) - 1>>
    IN  Group2(From(Alt(Word(s, i, <<"B", "i", "l", "l", " ", "t", "o">>),
                        Word(s, i, <<"R", "e", "c", "i", "p", "i", "e", "n", "t">>))))

\* lines 77-81: the first pattern of date_patterns that matches anywhere
FirstDate(iso, dot, slash) ==
    IF iso # <<>> THEN iso ELSE IF dot # <<>> THEN dot ELSE slash

\* re.search tries the positions from the left: LazyCap over the start i
extract_invoice_meta_basic(text) ==
    << strip(SpanText(text, LazyCap({<<i, InvoiceNumberAt(text, i)>> : i \in 1..Len(text)})),
             Space),
       FirstDate(
           SpanText(text, LazyCap({<<i, Span(i, DateIsoAt(text, i))>> : i \in 1..Len(text)})),
           SpanText(text, LazyCap({<<i, Span(i, DateDotAt(text, i))>> : i \in 1..Len(text)})),
           SpanText(text, LazyCap({<<i, Span(i, DateSlashAt(text, i))>> : i \in 1..Len(text)}))),
       strip(SpanText(text, LazyCap({<<i, ClientAt(text, i)>> : i \in 1..Len(text)})),
             Space) >>

----------------------------------------------------------------------------
(* The line grammars.  A matcher returns the captured spans as a tuple of   *)
(* indices ending in 1, or <<>> when the line does not match.  The order in *)
(* which the alternatives are tried is the order re tries them in.          *)

\* a lazy prefix of n characters followed by what r captured
Prefixed(n, r) == IF r = <<>> THEN <<>> ELSE <<n>> \o r

\* an optional group: what the pattern captures with it, else without it
Optional(with, without) == IF with # <<>> THEN with ELSE without

\* the items a line-by-line parser emits: each element is <<item>> or <<>>
RECURSIVE Flatten(_)
Flatten(ss) == IF ss = <<>> THEN <<>> ELSE Head(ss) \o Flatten(Tail(ss))

\* [l.strip() for l in text.splitlines() if l.strip()]
StrippedLines(text) ==
    LET ls == splitlines(text)
        st == AsSeq([k \in 1..Len(ls) |-> strip(ls[k], Space)])
    IN  SelectSeq(st, LAMBDA l : l # <<>>)

\* ^(?P<name>.+?)\s+(?P<qty>[\d,]+)\s+EA\s+(?P<unit>[\d\s]+,[\d]+)
\*  (?:\s+(?P<total>[\d\s]+,[\d]+))?$
\* <<last of name, qty first, last, unit first, last, total first, last, 1>>,
\* total first = 0 when the optional group did not take part
line_re(line) ==
    LET \* \s+ from p followed by Rest
        Ws(p, Rest(_)) == GreedyCap({<<k, Rest(p + k)>> : k \in 1..Run(line, p, Space)})
        End(p) == IF p = Len(line) + 1 THEN <<1>> ELSE <<>>
        \* ,[\d]+ after the j characters of [\d\s]+ from p
        Decimals(p, j, Rest(_)) ==
            IF At(line, p + j) # "," THEN <<>>
            ELSE GreedyCap({<<m, Captured(p, j + 1 + m, Rest(p + j + 1 + m))>> :
                               m \in 1..Run(line, p + j + 1, Digit)})
        \* [\d\s]+,[\d]+
        Amount(p, Rest(_)) ==
            GreedyCap({<<j, Decimals(p, j, Rest)>> : j \in 1..Run(line, p, Digit \cup Space)})
        Total(p) == Amount(p, End)
        OptTotal(p) == Optional(Ws(p, Total), IF End(p) # <<>> THEN <<0, 0, 1>> ELSE <<>>)
        Unit(p) == Amount(p, OptTotal)
        EA(p)   == IF At(line, p) = "E" /\ At(line, p + 1) = "A"
                   THEN Ws(p + 2, Unit) ELSE <<>>
        AfterQty(p) == Ws(p, EA)
        Qty(p)  == GreedyCap({<<k, Captured(p, k, AfterQty(p + k))>> :
                                 k \in 1..Run(line, p, Digit \cup {","})})
    IN  LazyCap({<<n, Prefixed(n, Ws(n + 1, Qty))>> : n \in 1..Len(line)})

Item(invoice_number, invoice_date, client_name, product_name, quantity, product_price, currency) ==
    [invoice_number |-> invoice_number, invoice_date |-> invoice_date,
     client_name |-> client_name, product_name |-> product_name,
     quantity |-> quantity, product_price |-> product_price, currency |-> currency]

\* the currency handed on as detected, without the default
OrNOK_keeps_empty(currency) == currency

\* currency or "NOK"
OrNOK(currency) == IF currency # <<>> THEN currency ELSE NOK

\* lines 126-144 for a line that line_re matched with the spans m
bestdrive_item(line, m, invoice_number, invoice_date, client_name, currency) ==
    IF m = <<>> THEN <<>>
    ELSE <<Item(invoice_number, invoice_date, client_name,
                SubSeq(line, 1, m[1]),
                replace(replace(replace(SubSeq(line, m[2], m[3]), " ", <<>>, ReplaceAll),
                                ".", <<>>, ReplaceAll), ",", <<".">>, ReplaceAll),
                \* m.group("total") or m.group("unit")
                replace(replace(replace(IF m[6] # 0 THEN SubSeq(line, m[6], m[7])
                                        ELSE SubSeq(line, m[4], m[5]),
                                        " ", <<>>, ReplaceAll),
                                ".", <<>>, 0), ",", <<".">>, ReplaceAll),
                OrNOK(currency))>>

\* lines 123-146 over the stripped, non-empty lines
bestdrive_items_of(lines, invoice_number, invoice_date, client_name, currency) ==
    Flatten(AsSeq([k \in 1..Len(lines) |->
        bestdrive_item(lines[k], line_re(lines[k]), invoice_number, invoice_date,
                       client_name, currency)]))

_parse_bestdrive_items(text, invoice_number, invoice_date, client_name, currency) ==
    bestdrive_items_of(StrippedLines(text), invoice_number, invoice_date, client_name,
                       currency)

\* normalize_money of _parse_ndi_items
normalize_money(s) ==
    replace(replace(replace(s, " ", <<>>, ReplaceAll), ".", <<>>, ReplaceAll),
            ",", <<".">>, ReplaceAll)

\* \d{8,}
MinProductIdDigits == 8

\* [\d.,]
MoneyChar == Digit \cup {".", ","}

\* ^(?P<product_id>\d{8,})\s+(?P<desc>.+?)\s+(?P<qty>\d+)\s+stk\s+(?P<unit>[\d.,]+)\s+
\*  (?P<discount>[\d.,]+)\s+(?P<total>[\d.,]+)$ with re.IGNORECASE
\* <<desc first, last, qty first, last, unit first, last, discount first, last,
\*   total first, last, 1>>
tire_re(line) ==
    LET Ws(p, Rest(_)) == GreedyCap({<<k, Rest(p + k)>> : k \in 1..Run(line, p, Space)})
        Capture(p, cls, Rest(_)) ==
            GreedyCap({<<k, Captured(p, k, Rest(p + k))>> : k \in 1..Run(line, p, cls)})
        End(p)      == IF p = Len(line) + 1 THEN <<1>> ELSE <<>>
        Total(p)    == Capture(p, MoneyChar, End)
        AfterDisc(p) == Ws(p, Total)
        Discount(p) == Capture(p, MoneyChar, AfterDisc)
        AfterUnit(p) == Ws(p, Discount)
        Unit(p)     == Capture(p, MoneyChar, AfterUnit)
        Stk(p)      == IF MatchesAtIgnoreCase(line, p, <<"s", "t", "k">>)
                       THEN Ws(p + 3, Unit) ELSE <<>>
        AfterQty(p) == Ws(p, Stk)
        Qty(p)      == Capture(p, Digit, AfterQty)
        Desc(p)     == LazyCap({<<n, Captured(p, n, Ws(p + n, Qty))>> :
                                   n \in 1..(Len(line) - p + 1)})
        AfterId(p)  == Ws(p, Desc)
    IN  GreedyCap({<<k, AfterId(1 + k)>> : k \in MinProductIdDigits..Run(line, 1, Digit)})

\* ^(?P<name>Dekkavgift.*)\s+(?P<qty>\d+)\s+(?P<unit>[\d.,]+)\s+(?P<total>[\d.,]+)$
\* with re.IGNORECASE
\* <<last of name, qty first, last, unit first, last, total first, last, 1>>
fee_re(line) ==
    LET Ws(p, Rest(_)) == GreedyCap({<<k, Rest(p + k)>> : k \in 1..Run(line, p, Space)})
        Capture(p, cls, Rest(_)) ==
            GreedyCap({<<k, Captured(p, k, Rest(p + k))>> : k \in 1..Run(line, p, cls)})
        End(p)      == IF p = Len(line) + 1 THEN <<1>> ELSE <<>>
        Total(p)    == Capture(p, MoneyChar, End)
        AfterUnit(p) == Ws(p, Total)
        Unit(p)     == Capture(p, MoneyChar, AfterUnit)
        AfterQty(p) == Ws(p, Unit)
        Qty(p)      == Capture(p, Digit, AfterQty)
        label       == <<"D", "e", "k", "k", "a", "v", "g", "i", "f", "t">>
    IN  IF ~MatchesAtIgnoreCase(line, 1, label) THEN <<>>
        ELSE GreedyCap({<<n, Prefixed(n, Ws(n + 1, Qty))>> : n \in Len(label)..Len(line)})

\* lines 199-235 for a line with the spans mt of tire_re and mf of fee_re
ndi_item(line, mt, mf, invoice_number, invoice_date, client_name, currency) ==
    IF mt # <<>>
    THEN <<Item(invoice_number, invoice_date, client_name,
                SubSeq(line, mt[1], mt[2]), SubSeq(line, mt[3], mt[4]),
                normalize_money(SubSeq(line, mt[9], mt[10])), OrNOK(currency))>>
    ELSE IF mf # <<>>
    THEN <<Item(invoice_number, invoice_date, client_name,
                SubSeq(line, 1, mf[1]), SubSeq(line, mf[2], mf[3]),
                normalize_money(SubSeq(line, mf[6], mf[7])), OrNOK(currency))>>
    ELSE <<>>

\* lines 194-237 over the stripped, non-empty lines
ndi_items_of(lines, invoice_number, invoice_date, client_name, currency) ==
    Flatten(AsSeq([k \in 1..Len(lines) |->
        ndi_item(lines[k], tire_re(lines[k]), fee_re(lines[k]), invoice_number,
                 invoice_date, client_name, currency)]))

_parse_ndi_items(text, invoice_number, invoice_date, client_name, currency) ==
    ndi_items_of(StrippedLines(text), invoice_number, invoice_date, client_name, currency)

----------------------------------------------------------------------------
(* extract_line_items_local *)

Keywords ==
    { <<"s", "u", "b", "t", "o", "t", "a", "l">>, <<"t", "o", "t", "a", "l">>,
      <<"t", "a", "x">>, <<"v", "a", "t">>, <<"m", "w", "s", "t">>,
      <<"g", "r", "o", "s", "s">>, <<"s", "a", "l", "e", "s", " ", "t", "a", "x">>,
      <<"d", "e", "p", "o", "s", "i", "t">>,
      <<"p", "o", "w", "e", "r", "e", "d", " ", "b", "y">> }

\* lines 292-309: the token before the first token that contains first_money,
\* when that token is a pure integer; "" otherwise
quantity_before(tokens, holders) ==
    IF holders # {} /\ Min(holders) > 1 /\ FullMatchDigits(tokens[Min(holders) - 1])
    THEN tokens[Min(holders) - 1] ELSE <<>>

\* lines 301-304: the indices of the tokens that contain first_money
holders_of(tokens, first_money) ==
    {i \in 1..Len(tokens) : Contains(tokens[i], first_money)}

\* the loop with the first amount of the line taken as the price
fallback_item_first_price(line, lower_line, money_matches, tokens, product_text, invoice_number, invoice_date, client_name, currency) ==
    IF \E kw \in Keywords : Contains(lower_line, kw) THEN <<>>
    ELSE IF money_matches = <<>> THEN <<>>
    ELSE IF product_text = <<>> THEN <<>>
    ELSE <<Item(invoice_number, invoice_date, client_name, product_text,
                quantity_before(tokens, holders_of(tokens, money_matches[1])),
                replace(money_matches[1], ",", <<".">>, ReplaceAll),
                currency)>>

\* lines 274-325 for a stripped, non-empty line
fallback_item(line, lower_line, money_matches, tokens, product_text, invoice_number, invoice_date, client_name, currency) ==
    IF \E kw \in Keywords : Contains(lower_line, kw) THEN <<>>
    ELSE IF money_matches = <<>> THEN <<>>
    ELSE IF product_text = <<>> THEN <<>>
    ELSE <<Item(invoice_number, invoice_date, client_name, product_text,
                quantity_before(tokens, holders_of(tokens, money_matches[1])),
                replace(money_matches[Len(money_matches)], ",", <<".">>, ReplaceAll),
                currency)>>

\* lines 271-273 and the rest of one iteration of the fallback loop
stripped_item(line, invoice_number, invoice_date, client_name, currency) ==
    IF line = <<>> THEN <<>>
    ELSE fallback_item(line, lower(line), findall_money(line), split(line),
                       strip(CollapseWhitespace(sub_money(line)), {":", "-", " "}),
                       invoice_number, invoice_date, client_name, currency)

\* one iteration of the fallback loop, lines 270-325: <<item>> or <<>>
FallbackItemOf(raw_line, invoice_number, invoice_date, client_name, currency) ==
    stripped_item(strip(raw_line, Space), invoice_number, invoice_date, client_name,
                  currency)

\* the fallback, lines 269-327
fallback_items_of(lines, invoice_number, invoice_date, client_name, currency) ==
    Flatten(AsSeq([k \in 1..Len(lines) |->
        FallbackItemOf(lines[k], invoice_number, invoice_date, client_name, currency)]))

Fallback(text, invoice_number, invoice_date, client_name, currency) ==
    fallback_items_of(splitlines(text), invoice_number, invoice_date, client_name, currency)

\* lines 254-266: one vendor branch; present is the test of the signature,
\* items what the vendor's parser returns on the text
Branch(name, present, items, otherwise) ==
    IF present
    THEN /\ ran' = Append(ran, name)
         /\ IF items # <<>>
            THEN returned' = items /\ pc' = "done"
            ELSE returned' = returned /\ pc' = otherwise
    ELSE ran' = ran /\ returned' = returned /\ pc' = otherwise

NdiSignature(text) ==
    LET up == upper(text)
    IN  \/ Contains(up, <<"N", "D", "I", " ", "N", "O", "R", "G", "E", " ", "A", "S">>)
        \/ Contains(up, <<"N", "D", "I", " ", "N", "O", "R", "G", "E", " ", "A", "/", "S">>)
        \/ Contains(up, <<"N", "D", "I", " ", "N", "O", "R", "G", "E">>)

BestdriveSignature(text) ==
    LET up == upper(text)
    IN  \/ Contains(up, <<"B", "E", "S", "T", "D", "R">>)
        \/ Contains(up, <<"B", "E", "S", "T", "D", "R", "I", "V", "E">>)
        \/ Contains(up, <<"B", "Y", " ", "C", "O", "N", "T", "I", "N", "E", "N", "T", "A", "L">>)

----------------------------------------------------------------------------
(* The OCR texts the parser is run on: an optional vendor signature line    *)
(* for each vendor, an optional heading line, and up to MaxItemLines lines  *)
(* of the kinds the three parsers are written for.                          *)

\* NDI Norge AS
SigNdi ==
    <<"N", "D", "I", " ", "N", "o", "r", "g", "e", " ", "A", "S">>

\* BestDrive
SigBestdrive ==
    <<"B", "e", "s", "t", "D", "r", "i", "v", "e">>

\* Faktura 7001 19.02.2024 kr
HeadFaktura ==
    <<"F", "a", "k", "t", "u", "r", "a", " ", "7", "0", "0", "1", " ", "1", "9", ".",
      "0", "2", ".", "2", "0", "2", "4", " ", "k", "r">>

\* Invoice #1058 7/19/24 Bill to: ACME $ kr
HeadInvoice ==
    <<"I", "n", "v", "o", "i", "c", "e", " ", "#", "1", "0", "5", "8", " ", "7", "/",
      "1", "9", "/", "2", "4", " ", "B", "i", "l", "l", " ", "t", "o", ":", " ", "A",
      "C", "M", "E", " ", "$", " ", "k", "r">>

\* Bill to: ACME 2024-02-19 5 \u20ac
HeadBillTo ==
    <<"B", "i", "l", "l", " ", "t", "o", ":", " ", "A", "C", "M", "E", " ", "2", "0",
      "2", "4", "-", "0", "2", "-", "1", "9", " ", "5", " ", "U+20AC">>

\* Recipient 5 z\u0142
HeadZloty ==
    <<"R", "e", "c", "i", "p", "i", "e", "n", "t", " ", "5", " ", "z", "U+0142">>

\* \xa3 5 GBP
HeadPound ==
    <<"U+00A3", " ", "5", " ", "G", "B", "P">>

\* 12345678 Nexen 4 stk 881,00 30,0 2.466,80
LineTire ==
    <<"1", "2", "3", "4", "5", "6", "7", "8", " ", "N", "e", "x", "e", "n", " ", "4",
      " ", "s", "t", "k", " ", "8", "8", "1", ",", "0", "0", " ", "3", "0", ",", "0",
      " ", "2", ".", "4", "6", "6", ",", "8", "0">>

\* Dekkavgift PV 4 20,00 80,00
LineFee ==
    <<"D", "e", "k", "k", "a", "v", "g", "i", "f", "t", " ", "P", "V", " ", "4", " ",
      "2", "0", ",", "0", "0", " ", "8", "0", ",", "0", "0">>

\* BRAVURIS XL 2,00 EA 1 842,00 3 684,00
LineEaTotal ==
    <<"B", "R", "A", "V", "U", "R", "I", "S", " ", "X", "L", " ", "2", ",", "0", "0",
      " ", "E", "A", " ", "1", " ", "8", "4", "2", ",", "0", "0", " ", "3", " ", "6",
      "8", "4", ",", "0", "0">>

\* GRUPPE 1 2,00 EA 20,00
LineEaUnit ==
    <<"G", "R", "U", "P", "P", "E", " ", "1", " ", "2", ",", "0", "0", " ", "E", "A",
      " ", "2", "0", ",", "0", "0">>

\* X 1,00 EA 1\t842,00
LineEaTab ==
    <<"X", " ", "1", ",", "0", "0", " ", "E", "A", " ", "1", "\t", "8", "4", "2", ",",
      "0", "0">>

\* Brake Pads 4 89.90
LineGeneric ==
    <<"B", "r", "a", "k", "e", " ", "P", "a", "d", "s", " ", "4", " ", "8", "9", ".",
      "9", "0">>

\* Subtotal 120.00
LineSubtotal ==
    <<"S", "u", "b", "t", "o", "t", "a", "l", " ", "1", "2", "0", ".", "0", "0">>

\* Widget 1.234,56
LineThousands ==
    <<"W", "i", "d", "g", "e", "t", " ", "1", ".", "2", "3", "4", ",", "5", "6">>

\*  12.50
LineBare ==
    <<" ", "1", "2", ".", "5", "0">>

\* [ERROR 404] Filter 2 12.50
TextErrorLike ==
    <<"[", "E", "R", "R", "O", "R", " ", "4", "0", "4", "]", " ", "F", "i", "l", "t",
      "e", "r", " ", "2", " ", "1", "2", ".", "5", "0">>


MaxItemLines == 3

HeadLines == {HeadFaktura, HeadInvoice, HeadBillTo, HeadZloty, HeadPound}

ItemLines == <<LineTire, LineFee, LineEaTotal, LineEaUnit, LineEaTab,
              LineGeneric, LineSubtotal, LineThousands, LineBare>>

\* the bodies of a text: at most MaxItemLines of the item lines, in the order above
Bodies ==
    { AsSeq([k \in 1..Cardinality(S) |-> ItemLines[SortedSeq(S)[k]]]) :
        S \in {T \in SUBSET DOMAIN ItemLines : Cardinality(T) <= MaxItemLines} }

\* "\n".join(lines)
RECURSIVE Join(_)
Join(lines) ==
    IF lines = <<>> THEN <<>>
    ELSE IF Len(lines) = 1 THEN lines[1]
    ELSE lines[1] \o <<"\n">> \o Join(Tail(lines))

Texts ==
    { Join(sig \o head \o body) :
        sig  \in {<<>>, <<SigNdi>>, <<SigBestdrive>>, <<SigNdi, SigBestdrive>>},
        head \in {<<>>} \cup {<<h>> : h \in HeadLines},
        body \in Bodies }

----------------------------------------------------------------------------
(* extract_line_items_local, lines 241-327, step by step *)

local_vars == <<ocr_text, meta, invoice_currency, ran>>

ai_vars == <<content>>

batch_vars == <<files, parser_mode, ocr_results, all_rows, parsed, idx>>

\* line 248 with the first two names of the unpacking exchanged
Begin_date_and_number_exchanged ==
    /\ pc = "start"
    /\ meta' = << extract_invoice_meta_basic(ocr_text)[2],
                  extract_invoice_meta_basic(ocr_text)[1],
                  extract_invoice_meta_basic(ocr_text)[3] >>
    /\ invoice_currency' = detect_currency(ocr_text)
    /\ pc' = "ndi"
    /\ UNCHANGED <<ocr_text, returned, ran, raised, ai_vars, batch_vars>>

\* lines 248-251
Begin ==
    /\ pc = "start"
    /\ meta' = extract_invoice_meta_basic(ocr_text)
    /\ invoice_currency' = detect_currency(ocr_text)
    /\ pc' = "ndi"
    /\ UNCHANGED <<ocr_text, returned, ran, raised, ai_vars, batch_vars>>

\* lines 254-259 without the return of line 259
NdiBranch_without_return ==
    /\ pc = "ndi"
    /\ Branch("ndi", NdiSignature(ocr_text), <<>>, "bestdrive")
    /\ UNCHANGED <<ocr_text, meta, invoice_currency, raised, ai_vars, batch_vars>>

\* lines 254-259
NdiBranch ==
    /\ pc = "ndi"
    /\ Branch("ndi", NdiSignature(ocr_text),
              _parse_ndi_items(ocr_text, meta[1], meta[2], meta[3], invoice_currency),
              "bestdrive")
    /\ UNCHANGED <<ocr_text, meta, invoice_currency, raised, ai_vars, batch_vars>>

\* lines 261-266 with "elif" for the "if" of line 261
BestdriveBranch_elif ==
    /\ pc = "bestdrive"
    /\ Branch("bestdrive", ~NdiSignature(ocr_text) /\ BestdriveSignature(ocr_text),
              _parse_bestdrive_items(ocr_text, meta[1], meta[2], meta[3],
                                     invoice_currency),
              "fallback")
    /\ UNCHANGED <<ocr_text, meta, invoice_currency, raised, ai_vars, batch_vars>>

\* lines 261-266
BestdriveBranch ==
    /\ pc = "bestdrive"
    /\ Branch("bestdrive", BestdriveSignature(ocr_text),
              _parse_bestdrive_items(ocr_text, meta[1], meta[2], meta[3],
                                     invoice_currency),
              "fallback")
    /\ UNCHANGED <<ocr_text, meta, invoice_currency, raised, ai_vars, batch_vars>>

\* lines 269-327
FallbackLoop ==
    /\ pc = "fallback"
    /\ ran' = Append(ran, "fallback")
    /\ returned' = Fallback(ocr_text, meta[1], meta[2], meta[3], invoice_currency)
    /\ pc' = "done"
    /\ UNCHANGED <<ocr_text, meta, invoice_currency, raised, ai_vars, batch_vars>>

\* Python's None as a JSON value (see the values of extract_line_items_with_ai)
None == [t |-> "NoneType", v |-> <<>>]

\* no request made yet: there is no response
NoResponse == [kind |-> "no response", doc |-> None]

NoCall ==
    /\ meta = <<>> /\ invoice_currency = <<>> /\ returned = <<>> /\ ran = <<>>
    /\ raised = "none"

NoBatch ==
    /\ files = <<>> /\ parser_mode = "none" /\ ocr_results = <<>> /\ all_rows = <<>>
    /\ parsed = {} /\ idx = 0

\* one call of extract_line_items_local on a text (the single-file path, line 607)
Init ==
    /\ ocr_text \in Texts
    /\ pc = "start"
    /\ content = NoResponse
    /\ NoCall
    /\ NoBatch

Next == Begin \/ NdiBranch \/ BestdriveBranch \/ FallbackLoop

Spec == Init /\ [][Next]_vars

----------------------------------------------------------------------------
(* extract_line_items_with_ai, lines 401-421.  A JSON value is a record     *)
(* [t, v]: t its Python type after json.loads, v its payload.               *)

Str(chars) == [t |-> "str", v |-> chars]

Number(n) == [t |-> "int", v |-> <<n>>]

List(values) == [t |-> "list", v |-> values]

Dict(fields) == [t |-> "dict", v |-> fields]

FieldNames == {"invoice_number", "invoice_date", "client_name", "product_name",
               "quantity", "product_price", "currency"}

\* objects the remote model may put in its array
ObjFull ==
    Dict([invoice_number |-> Str(<<"1">>), invoice_date |-> Str(<<>>),
          client_name |-> Str(<<>>), product_name |-> Str(<<"O", "i", "l">>),
          quantity |-> Str(<<"1">>), product_price |-> Str(<<"5", ".", "0", "0">>),
          currency |-> Str(USD)])

ObjNullField == Dict([ObjFull.v EXCEPT !.invoice_date = None])

ObjNumberPrice == Dict([ObjFull.v EXCEPT !.product_price = Number(5)])

ObjMissingField == Dict([product_name |-> Str(<<"O", "i", "l">>)])

Elements == {ObjFull, ObjNullField, ObjNumberPrice, ObjMissingField, Number(1)}

MaxListLen == 2

Lists == {List(l) : l \in UNION {[1..n -> Elements] : n \in 0..MaxListLen}}

\* message.content: None, a str that is no JSON document, or a JSON document
NoContent == [kind |-> "None", doc |-> None]

NotJson == [kind |-> "invalid", doc |-> None]

Json(value) == [kind |-> "json", doc |-> value]

Contents ==
    {NoContent, NotJson}
    \cup {Json(l) : l \in Lists}
    \cup {Json(Dict([items |-> l])) : l \in Lists}
    \cup {Json(Dict([items |-> Number(3)])), Json(Dict(<<>>)), Json(Dict([rows |-> List(<<ObjFull>>)])),
          Json(Number(3)), Json(Str(<<"x">>)), Json(None)}

\* json.loads(content): the exception it raises ("none" when it returns) and its value
json_loads(c) ==
    IF c.kind = "None" THEN [exc |-> "TypeError", value |-> None]
    ELSE IF c.kind = "invalid" THEN [exc |-> "JSONDecodeError", value |-> None]
    ELSE [exc |-> "none", value |-> c.doc]

\* lines 413-419
ItemsOfValue(items) ==
    IF items.t = "dict"
    THEN IF "items" \in DOMAIN items.v /\ items.v["items"].t = "list"
         THEN items.v["items"].v ELSE <<>>
    ELSE IF items.t = "list" THEN items.v
    ELSE <<>>

\* lines 401-409: the request returns a response whose content is c
Create(From) ==
    /\ pc = "call"
    /\ \E c \in From : content' = c
    /\ pc' = "loads"
    /\ UNCHANGED <<returned, raised, local_vars, batch_vars>>

\* lines 401-407: the request raises (connection, authentication, rate limit)
CreateRaises ==
    /\ pc = "call"
    /\ raised' = "APIError"
    /\ pc' = "raised"
    /\ UNCHANGED <<returned, content, local_vars, batch_vars>>

\* lines 411-421: only json.JSONDecodeError is caught
TryLoads ==
    /\ pc = "loads"
    /\ LET r == json_loads(content)
       IN  IF r.exc = "JSONDecodeError"
           THEN returned' = <<>> /\ raised' = raised /\ pc' = "done"
           ELSE IF r.exc # "none"
           THEN returned' = returned /\ raised' = r.exc /\ pc' = "raised"
           ELSE returned' = ItemsOfValue(r.value) /\ raised' = raised /\ pc' = "done"
    /\ UNCHANGED <<content, local_vars, batch_vars>>

\* one call of extract_line_items_with_ai (the single-file path, line 604)
InitAI ==
    /\ ocr_text = LineGeneric
    /\ pc = "call"
    /\ content = NoResponse
    /\ NoCall
    /\ NoBatch

NextAI == Create(Contents) \/ CreateRaises \/ TryLoads

SpecAI == InitAI /\ [][NextAI]_vars

----------------------------------------------------------------------------
(* The ZIP handler, lines 462-559 *)

\* f"[ERROR processing file: {e}]" for an exception whose message is "e"
ErrorMarker ==
    <<"[", "E", "R", "R", "O", "R", " ", "p", "r", "o", "c", "e", "s", "s", "i", "n",
      "g", " ", "f", "i", "l", "e", ":", " ", "e", "]">>

\* str.startswith
startswith(s, prefix) ==
    Len(prefix) <= Len(s) /\ \A k \in 1..Len(prefix) : s[k] = prefix[k]

\* the texts OCR produces in a batch: a generic invoice, an NDI invoice, and a
\* page whose own text begins with "[ERROR"
BatchTexts == {LineGeneric, Join(<<SigNdi, LineTire>>), TextErrorLike}

\* A file of the archive: supported is FALSE for a file lines 481-491 skip;
\* ocr is what extract_text does on the file, text what it returns.
FileKinds ==
    {[supported |-> FALSE, ocr |-> "returns", text |-> <<>>],
     [supported |-> TRUE, ocr |-> "raises", text |-> <<>>]}
    \cup {[supported |-> TRUE, ocr |-> "returns", text |-> t] : t \in BatchTexts}

MaxFiles == 2

\* the contents the remote model answers with in a batch
BatchContents ==
    {NoContent, NotJson, Json(List(<<ObjFull>>)), Json(List(<<ObjMissingField>>)),
     Json(List(<<ObjFull, Number(1)>>))}

RowKeys == {"File Name", "Invoice Number", "Invoice Date", "Client Name",
            "Product Name", "Quantity", "Product Price", "Currency"}

\* lines 535-544; get[field] is item.get(field, "")
Row(filename, get) ==
    [k \in RowKeys |->
        IF k = "File Name" THEN Number(filename)
        ELSE IF k = "Invoice Number" THEN get["invoice_number"]
        ELSE IF k = "Invoice Date" THEN get["invoice_date"]
        ELSE IF k = "Client Name" THEN get["client_name"]
        ELSE IF k = "Product Name" THEN get["product_name"]
        ELSE IF k = "Quantity" THEN get["quantity"]
        ELSE IF k = "Product Price" THEN get["product_price"]
        ELSE get["currency"]]

\* the row of one item: a dict of the local parser holds every field as a str,
\* an element of the remote model's list has .get only when it is a dict
RowOf(filename, item) ==
    IF parser_mode = "AI (ChatGPT)"
    THEN Row(filename, [f \in FieldNames |->
                           IF f \in DOMAIN item.v THEN item.v[f] ELSE Str(<<>>)])
    ELSE Row(filename, [f \in FieldNames |-> Str(item[f])])

\* lines 477-498, one file of the walk
OcrStep ==
    /\ pc = "ocr_loop"
    /\ idx <= Len(files)
    /\ ocr_results' =
          IF ~files[idx].supported THEN ocr_results
          ELSE IF files[idx].ocr = "raises" THEN Append(ocr_results, <<idx, ErrorMarker>>)
          ELSE Append(ocr_results, <<idx, files[idx].text>>)
    /\ idx' = idx + 1
    /\ UNCHANGED <<pc, returned, raised, local_vars, ai_vars, files, parser_mode,
                   all_rows, parsed>>

\* lines 500-524: the walk is over, the parsing loop starts
OcrDone ==
    /\ pc = "ocr_loop"
    /\ idx > Len(files)
    /\ pc' = "parse_loop"
    /\ idx' = 1
    /\ UNCHANGED <<returned, raised, local_vars, ai_vars, files, parser_mode,
                   ocr_results, all_rows, parsed>>

\* lines 525-532: the next OCR result is skipped or handed to the selected parser
ParseStep ==
    /\ pc = "parse_loop"
    /\ idx <= Len(ocr_results)
    /\ LET text == ocr_results[idx][2]
       IN  IF startswith(text, <<"[", "E", "R", "R", "O", "R">>)
           THEN /\ idx' = idx + 1
                /\ UNCHANGED <<pc, ocr_text, parsed>>
           ELSE /\ idx' = idx
                /\ ocr_text' = text
                /\ parsed' = parsed \cup {ocr_results[idx][1]}
                /\ pc' = IF parser_mode = "AI (ChatGPT)" THEN "call" ELSE "start"
    /\ meta' = <<>> /\ invoice_currency' = <<>> /\ ran' = <<>> /\ returned' = <<>>
    /\ content' = NoResponse
    /\ UNCHANGED <<raised, files, parser_mode, ocr_results, all_rows>>

\* lines 534-545: the rows of the returned items; item.get raises AttributeError
\* on the first element that is no dict
CollectRows ==
    /\ pc = "done"
    /\ parser_mode # "none"
    /\ LET bad  == {k \in 1..Len(returned) :
                        parser_mode = "AI (ChatGPT)" /\ returned[k].t # "dict"}
           upto == IF bad = {} THEN Len(returned) ELSE Min(bad) - 1
           rows == [k \in 1..upto |-> RowOf(ocr_results[idx][1], returned[k])]
       IN  /\ all_rows' = all_rows \o rows
           /\ IF bad = {}
              THEN idx' = idx + 1 /\ pc' = "parse_loop" /\ raised' = raised
              ELSE idx' = idx /\ pc' = "raised" /\ raised' = "AttributeError"
    /\ UNCHANGED <<returned, local_vars, ai_vars, files, parser_mode, ocr_results, parsed>>

\* lines 547-559: the loop is over, the table is shown
ParseDone ==
    /\ pc = "parse_loop"
    /\ idx > Len(ocr_results)
    /\ pc' = "finished"
    /\ UNCHANGED <<idx, returned, raised, local_vars, ai_vars, files, parser_mode,
                   ocr_results, all_rows, parsed>>

\* the button of line 462 is pressed on an archive, with either parser selected
InitBatch ==
    /\ files \in UNION {[1..n -> FileKinds] : n \in 0..MaxFiles}
    /\ parser_mode \in {"Local (free)", "AI (ChatGPT)"}
    /\ pc = "ocr_loop"
    /\ idx = 1
    /\ ocr_results = <<>> /\ all_rows = <<>> /\ parsed = {}
    /\ ocr_text = <<>>
    /\ content = NoResponse
    /\ NoCall

NextBatch ==
    \/ OcrStep \/ OcrDone \/ ParseStep \/ CollectRows \/ ParseDone
    \/ Begin \/ NdiBranch \/ BestdriveBranch \/ FallbackLoop
    \/ Create(BatchContents) \/ CreateRaises \/ TryLoads

SpecBatch == InitBatch /\ [][NextBatch]_vars

----------------------------------------------------------------------------
(* Properties of extract_line_items_local.  Grammar A is                    *)
(* _parse_bestdrive_items, Grammar B is _parse_ndi_items.                   *)

Range(seq) == {seq[i] : i \in DOMAIN seq}

LastOf(seq) == seq[Len(seq)]

\* what each parser yields on the text of the call, with the metadata and the
\* currency of lines 248-249
GrammarA == _parse_bestdrive_items(ocr_text, meta[1], meta[2], meta[3], invoice_currency)

GrammarB == _parse_ndi_items(ocr_text, meta[1], meta[2], meta[3], invoice_currency)

GenericFallback == Fallback(ocr_text, meta[1], meta[2], meta[3], invoice_currency)

\* C1 as the claim states it: when the grammar selected by signature (B if B's
\* signature is present, otherwise A if A's is) yields no item, the call
\* returns the fallback's items, and Grammar A runs only when B's signature
\* is absent.
C1_SelectedGrammarOnly ==
    pc = "done" =>
        LET hasB == NdiSignature(ocr_text)
            hasA == BestdriveSignature(ocr_text)
        IN  /\ (IF hasB THEN GrammarB = <<>> ELSE hasA /\ GrammarA = <<>>)
               => returned = GenericFallback
            /\ "bestdrive" \in Range(ran) => ~hasB

\* C1, amended: when every grammar whose signature is present yields no item,
\* the call returns the fallback's items; Grammar A runs exactly when its
\* signature is present and Grammar B returned nothing (B's signature absent,
\* or B run and yielding no item).
C1_EveryPresentGrammarEmpty ==
    pc = "done" =>
        LET hasB   == NdiSignature(ocr_text)
            hasA   == BestdriveSignature(ocr_text)
            emptyB == GrammarB = <<>>
            emptyA == GrammarA = <<>>
        IN  /\ ( /\ hasB \/ hasA
                 /\ hasB => emptyB
                 /\ hasA => emptyA )
               => returned = GenericFallback
            /\ "bestdrive" \in Range(ran) <=> (hasA /\ (~hasB \/ emptyB))

\* both signatures present, both grammars run and empty, the fallback's items
\* returned
C1_Witness ==
    /\ pc = "done"
    /\ ran = <<"ndi", "bestdrive", "fallback">>
    /\ returned # <<>>

\* C2: on a text with B's signature on which Grammar B yields an item, the
\* call returns exactly Grammar B's items and runs no other parser.
C2_GrammarBReturned ==
    (pc = "done" /\ NdiSignature(ocr_text)) =>
        LET itemsB == GrammarB
        IN  itemsB # <<>> => returned = itemsB /\ ran = <<"ndi">>

\* B's items returned on a text that also carries A's signature, on which
\* Grammar A and the fallback would both yield items, other ones
C2_Witness ==
    /\ pc = "done"
    /\ NdiSignature(ocr_text) /\ BestdriveSignature(ocr_text)
    /\ returned = GrammarB /\ returned # <<>>
    /\ GrammarA # <<>> /\ GrammarA # returned
    /\ GenericFallback # <<>> /\ GenericFallback # returned

\* C3: in a batch, a fault of OCR or of line-item parsing on one file is caught
\* for that file and the later files are still processed: no exception leaves
\* the handler.
C3_BatchNeverAborted == parser_mode # "none" => pc # "raised"

\* C4: the product_price of every returned item is a dot-decimal string: no
\* comma, no whitespace, at most one dot.
C4_DotDecimalPrice ==
    pc = "done" =>
        \A k \in 1..Len(returned) :
            LET price == returned[k].product_price
            IN  /\ \A i \in 1..Len(price) : price[i] # "," /\ price[i] \notin Space
                /\ Cardinality({i \in 1..Len(price) : price[i] = "."}) <= 1

\* C5: an item of Grammar A or B carries detect_currency(text) when that is
\* not empty and "NOK" when it is, never the empty string; an item of the
\* fallback carries detect_currency(text) as it is.
C5_CurrencyOfItems ==
    pc = "done" =>
        LET detected == detect_currency(ocr_text)
        IN  \A k \in 1..Len(returned) :
                IF LastOf(ran) \in {"ndi", "bestdrive"}
                THEN /\ returned[k].currency # <<>>
                     /\ returned[k].currency = IF detected # <<>> THEN detected ELSE NOK
                ELSE returned[k].currency = detected

\* items of a vendor grammar on a text in which no currency is detected
C5_Witness ==
    /\ pc = "done"
    /\ LastOf(ran) \in {"ndi", "bestdrive"}
    /\ returned # <<>>
    /\ detect_currency(ocr_text) = <<>>

\* the JSON value a response content holds for lines 413-419: a list, the
\* list under "items" of an object, nothing otherwise
ListOfContent(c) ==
    IF c.kind # "json" THEN <<>>
    ELSE IF c.doc.t = "list" THEN c.doc.v
    ELSE IF c.doc.t = "dict" /\ "items" \in DOMAIN c.doc.v /\ c.doc.v["items"].t = "list"
    THEN c.doc.v["items"].v
    ELSE <<>>

\* C6: whatever content the response holds (no JSON, JSON of another shape,
\* no content at all) extract_line_items_with_ai does not raise, and it
\* returns the list, the list under "items", or the empty list.
C6_NeverRaisesOnContent ==
    /\ content # NoResponse => pc # "raised"
    /\ pc = "done" => returned = ListOfContent(content)

\* C7: every returned item is a record of exactly the seven fields, each a
\* string (checked on the extractor whose items come from the remote model).
C7_SevenStringFields ==
    pc = "done" =>
        \A k \in 1..Len(returned) :
            /\ returned[k].t = "dict"
            /\ DOMAIN returned[k].v = FieldNames
            /\ \A f \in FieldNames : returned[k].v[f].t = "str"

\* the probes as C8 lists them: the euro sign is U+20AC, the pound sign
\* U+00A3, "zł" is z followed by U+0142
ProbeOrder(text) ==
    IF Contains(text, <<"$">>) THEN USD
    ELSE IF Contains(text, <<"U+20AC">>) THEN EUR
    ELSE IF Contains(text, <<" ">> \o NOK) \/ Contains(text, <<"k", "r">>) THEN NOK
    ELSE IF Contains(text, <<" ">> \o PLN) \/ Contains(lower(text), <<"z", "U+0142">>)
    THEN PLN
    ELSE IF Contains(text, <<" ">> \o GBP) \/ Contains(text, <<"U+00A3">>) THEN GBP
    ELSE <<>>

\* C8: detect_currency returns the code of the first probe that matches, in
\* the order dollar sign, euro sign, " NOK" or "kr", " PLN" or "zł", " GBP" or
\* pound sign, and "" when none does.
C8_ProbeOrder == pc # "start" => invoice_currency = ProbeOrder(ocr_text)

\* C9: all returned items carry the invoice_number, invoice_date and
\* client_name that extract_invoice_meta_basic yields on the whole text.
C9_SharedMeta ==
    (pc = "done" /\ returned # <<>>) =>
        LET triple == extract_invoice_meta_basic(ocr_text)
        IN  \A k \in 1..Len(returned) :
                <<returned[k].invoice_number, returned[k].invoice_date,
                  returned[k].client_name>> = triple

\* several items, with a number, a date and a client all found in the text
C9_Witness ==
    /\ pc = "done"
    /\ Len(returned) >= 2
    /\ \A k \in 1..Len(returned) :
           /\ returned[k].invoice_number # <<>>
           /\ returned[k].invoice_date # <<>>
           /\ returned[k].client_name # <<>>
           /\ returned[k].invoice_number # returned[k].invoice_date

\* the positions at which a whitespace-delimited token of the line starts
TokenStarts(line) ==
    {i \in 1..Len(line) : line[i] \notin Space /\ At(line, i - 1) \notin
                                                  (Range(line) \ Space)}

\* the token that starts at position b
TokenAt(line, b) ==
    SubSeq(line, b, Min({j \in b..Len(line) : At(line, j + 1) \notin
                                               (Range(line) \ Space)}))

\* the token immediately before the token that holds position q when it is a
\* pure integer, "" otherwise
IntegerTokenBefore(line, q) ==
    LET holder == Max({i \in TokenStarts(line) : i <= q})
        before == {i \in TokenStarts(line) : i < holder}
    IN  IF before = {} THEN <<>>
        ELSE IF \A i \in 1..Len(TokenAt(line, Max(before))) :
                    TokenAt(line, Max(before))[i] \in Digit
        THEN TokenAt(line, Max(before))
        ELSE <<>>

\* the characters of the line outside the spans sp, in order
Outside(line, sp) ==
    LET F[i \in 0..Len(line)] ==
            IF i = 0 THEN <<>>
            ELSE IF \E k \in 1..Len(sp) : sp[k][1] <= i /\ i <= sp[k][2] THEN F[i - 1]
            ELSE Append(F[i - 1], line[i])
    IN  F[Len(line)]

\* s with every "," turned into "."
CommaToDot(s) == [i \in 1..Len(s) |-> IF s[i] = "," THEN "." ELSE s[i]]

\* what C10 says of an item and the line it comes from
FallbackItemOfLine(item, raw_line) ==
    LET line == strip(raw_line, Space)
        sp   == MoneySpansFrom(line, 1)
    IN  /\ line # <<>>
        /\ \A kw \in Keywords : ~Contains(lower(line), kw)
        /\ sp # <<>>
        /\ item.product_price = CommaToDot(SubSeq(line, sp[Len(sp)][1], sp[Len(sp)][2]))
        /\ item.quantity = IntegerTokenBefore(line, sp[1][1])
        /\ item.product_name # <<>>
        /\ item.product_name = strip(CollapseWhitespace(Outside(line, sp)), {":", "-", " "})

\* C10: the items of the fallback come from lines of the text in line order,
\* at most one per line; such a line is not empty, holds no summary or tax
\* keyword and at least one monetary match; the item's product_price is the
\* last match with "," replaced by ".", its quantity the token immediately
\* before the token holding the first match when that token is a pure
\* integer and "" otherwise, its product_name the non-empty remainder of the
\* line without the matches.
C10_FallbackItems ==
    (pc = "done" /\ LastOf(ran) = "fallback") =>
        LET lines == splitlines(ocr_text)
        IN  \E S \in SUBSET (1..Len(lines)) :
                /\ Cardinality(S) = Len(returned)
                /\ \A k \in 1..Len(returned) :
                       FallbackItemOfLine(returned[k], lines[SortedSeq(S)[k]])

\* the fallback on a text with a keyword line that is skipped and a line with
\* two amounts and an integer before the first
C10_Witness ==
    /\ pc = "done" /\ LastOf(ran) = "fallback"
    /\ Contains(lower(ocr_text), <<"s", "u", "b", "t", "o", "t", "a", "l">>)
    /\ \E k \in 1..Len(returned) : \E raw_line \in Range(splitlines(ocr_text)) :
           /\ FallbackItemOfLine(returned[k], raw_line)
           /\ returned[k].quantity # <<>>
           /\ Len(MoneySpansFrom(raw_line, 1)) >= 2

\* the Money Normalizer as C11 describes it: all whitespace removed, every
\* "." removed, "," replaced by "."
MoneyNormalizer(s) ==
    CommaToDot(SelectSeq(s, LAMBDA c : c \notin Space /\ c # "."))

\* the token Grammar A takes the price from: the trailing total when the line
\* has one, the unit price otherwise
PriceTokenA(line) ==
    LET m == line_re(line)
    IN  IF m[6] # 0 THEN SubSeq(line, m[6], m[7]) ELSE SubSeq(line, m[4], m[5])

\* the token Grammar B takes the price from: the total of a tire line or of a
\* fee line
PriceTokenB(line) ==
    LET mt == tire_re(line)
        mf == fee_re(line)
    IN  IF mt # <<>> THEN SubSeq(line, mt[9], mt[10]) ELSE SubSeq(line, mf[6], mf[7])

\* C11: the product_price of every item of Grammar A is the Money Normalizer
\* applied to the trailing total of its line when there is one and to the
\* unit price otherwise, and Grammar B applies the same normalization to the
\* total it captures.
C11_NormalizedPrice ==
    pc = "done" =>
        LET lines == StrippedLines(ocr_text)
            hitA  == SelectSeq(lines, LAMBDA l : line_re(l) # <<>>)
            hitB  == SelectSeq(lines, LAMBDA l : tire_re(l) # <<>> \/ fee_re(l) # <<>>)
        IN  /\ LastOf(ran) = "bestdrive" =>
                /\ Len(returned) = Len(hitA)
                /\ \A k \in 1..Len(returned) :
                       returned[k].product_price = MoneyNormalizer(PriceTokenA(hitA[k]))
            /\ LastOf(ran) = "ndi" =>
                /\ Len(returned) = Len(hitB)
                /\ \A k \in 1..Len(returned) :
                       returned[k].product_price = MoneyNormalizer(PriceTokenB(hitB[k]))

\* C12: when the batch is through, the files handed to the selected parser
\* are exactly the supported files on which OCR did not raise, whatever text
\* OCR returned for them.
C12_ExcludedIffOcrRaised ==
    pc = "finished" =>
        \A i \in 1..Len(files) :
            files[i].supported => (i \in parsed <=> files[i].ocr = "returns")

====
